---- MODULE Spec2Model ----
(***************************************************************************)
(* Model of zipdoc.py, the Mercurial encode/decode filter pair that stores *)
(* zipped documents uncompressed (and with their XML split into lines) in  *)
(* the repository and re-compresses them on the way out.                   *)
(*                                                                         *)
(* A buffer is modelled by what zipfile makes of it: either it cannot be   *)
(* opened (BadZipfile) and is only a raw byte string, or it is the ordered *)
(* list of its members (name, content, declared compression method, and    *)
(* whether ZipFile.read succeeds on it).  Member contents are sequences of *)
(* byte values and member names are sequences of characters, so that       *)
(* bytes.replace, str.lower and str.endswith are computed, not assumed.    *)
(***************************************************************************)
EXTENDS Integers, Sequences, FiniteSets, TLC

VARIABLES
    op,         \* the filter being run: "encode" (zipdocencode) / "decode"
    s,          \* the filter's input buffer (parameter s)
    filename,   \* type of kwargs["filename"]: "str" or "bytes"
    pc,         \* position inside the running filter
    infos,      \* archive_member_infos
    idx,        \* position of the for loop in archive_member_infos (1-based)
    outfile,    \* members written to the output ZipFile so far
    outclosed,  \* the output ZipFile has been closed
    events,     \* calls received by kwargs["ui"] during this call
    ret,        \* value returned by the filter (NoBuf while none)
    exc,        \* exception that left the filter ("none" while none)
    hist,       \* filters run so far on this document, the current one last
    orig,       \* the buffer handed to the first filter call
    xin,        \* SpecXml: a byte string x
    xsplit,     \* SpecXml: split(x)
    xjoin,      \* SpecXml: join(split(x))
    xresplit,   \* SpecXml: split(join(split(x)))
    xpc         \* SpecXml: number of substitutions applied so far

vars == <<op, s, filename, pc, infos, idx, outfile, outclosed, events, ret,
          exc, hist, orig, xin, xsplit, xjoin, xresplit, xpc>>

callvars == <<op, s, filename, pc, infos, idx, outfile, outclosed, events,
              ret, exc, hist, orig>>

xmlvars == <<xin, xsplit, xjoin, xresplit, xpc>>

----------------------------------------------------------------------------
(* Bounds *)

\* longest byte string the substitutions are applied to in SpecXml
MaxLen == 5

\* most members of an input archive
MaxMembers == 2

\* most filter calls chained on one document (commit, update, ...)
MaxCalls == 2

----------------------------------------------------------------------------
(* Bytes and names *)

GT == 62
LT == 60
CR == 13
LF == 10
SP == 32

\* zipfile.ZIP_STORED and zipfile.ZIP_DEFLATED
ZIP_STORED == 0
ZIP_DEFLATED == 8

\* b"><" and b">\r\n <"
TagBoundary == <<GT, LT>>
SplitBoundary == <<GT, CR, LF, SP, LT>>

\* the bytes SpecXml builds its strings from: the five the substitutions
\* look at and one other byte ('a')
Byte == {GT, LT, CR, LF, SP, 97}

RECURSIVE SeqsUpTo(_, _)
SeqsUpTo(S, n) ==
    IF n = 0 THEN {<<>>}
    ELSE LET shorter == SeqsUpTo(S, n - 1)
         IN  shorter \cup {Append(q, e) : q \in {r \in shorter : Len(r) = n - 1}, e \in S}

\* bytes.replace(old, new) for a non-empty old: the occurrences of old are
\* found left to right, without overlap, and each is replaced by new
RECURSIVE replace(_, _, _)
replace(b, old, new) ==
    IF Len(b) < Len(old) THEN b
    ELSE IF SubSeq(b, 1, Len(old)) = old
         THEN new \o replace(SubSeq(b, Len(old) + 1, Len(b)), old, new)
         ELSE <<Head(b)>> \o replace(Tail(b), old, new)

\* a faulty variant of split: the line break is LF only
split_lf(b) == replace(b, TagBoundary, <<GT, LF, SP, LT>>)

\* archive_member.replace(b"><", b">\r\n <")
split(b) == replace(b, TagBoundary, SplitBoundary)

\* a faulty variant of join: every CR LF SPACE is dropped, wherever it stands
join_strip(b) == replace(b, <<CR, LF, SP>>, <<>>)

\* archive_member.replace(b">\r\n <", b"><")
join(b) == replace(b, SplitBoundary, TagBoundary)

UpperChars == <<"A","B","C","D","E","F","G","H","I","J","K","L","M",
                "N","O","P","Q","R","S","T","U","V","W","X","Y","Z">>
LowerChars == <<"a","b","c","d","e","f","g","h","i","j","k","l","m",
                "n","o","p","q","r","s","t","u","v","w","x","y","z">>

LowerChar(c) ==
    IF \E i \in 1..Len(UpperChars) : UpperChars[i] = c
    THEN LowerChars[CHOOSE i \in 1..Len(UpperChars) : UpperChars[i] = c]
    ELSE c

\* str.lower()
lower(name) == [i \in 1..Len(name) |-> LowerChar(name[i])]

\* str.endswith(suffix)
endswith(name, suffix) ==
    /\ Len(name) >= Len(suffix)
    /\ SubSeq(name, Len(name) - Len(suffix) + 1, Len(name)) = suffix

DotXml == <<".", "x", "m", "l">>

\* faulty variants of isxml: the name is not lower-cased; the dot is not
\* required
isxml_cased(name) == endswith(name, DotXml)
isxml_nodot(name) == endswith(lower(name), <<"x", "m", "l">>)

\* archive_member_info.filename.lower().endswith('.xml')
isxml(name) == endswith(lower(name), DotXml)

----------------------------------------------------------------------------
(* SpecXml: the two substitutions on arbitrary byte strings *)

XmlIdle ==
    /\ xin = <<>> /\ xsplit = <<>> /\ xjoin = <<>> /\ xresplit = <<>>
    /\ xpc = 0

XmlInit ==
    /\ xin \in SeqsUpTo(Byte, MaxLen)
    /\ xsplit = <<>> /\ xjoin = <<>> /\ xresplit = <<>>
    /\ xpc = 0

\* the encode filter's substitution on x
XmlSplit ==
    /\ xpc = 0
    /\ xsplit' = split(xin)
    /\ xpc' = 1
    /\ UNCHANGED <<xin, xjoin, xresplit>>

\* the decode filter's substitution on the result
XmlJoin ==
    /\ xpc = 1
    /\ xjoin' = join(xsplit)
    /\ xpc' = 2
    /\ UNCHANGED <<xin, xsplit, xresplit>>

\* the encode filter's substitution again (the document is committed again)
XmlResplit ==
    /\ xpc = 2
    /\ xresplit' = split(xjoin)
    /\ xpc' = 3
    /\ UNCHANGED <<xin, xsplit, xjoin>>

----------------------------------------------------------------------------
(* Buffers, archives and members *)

Ops == {"encode", "decode"}

\* kwargs["filename"] is whatever the caller passes: Mercurial on Python 3
\* passes the path as bytes, a direct caller may pass a str
FilenameTypes == {"str", "bytes"}

NameDocument == <<"w","o","r","d","/","d","o","c","u","m","e","n","t",".","x","m","l">>
NameUpper == <<"A", ".", "X", "m", "L">>
NameImage == <<"i","m","a","g","e",".","p","n","g">>
NameBare == <<"x", "m", "l">>

Names == {NameDocument, NameUpper, NameImage, NameBare}

\* <a><b/></a>
ContentTags == <<60, 97, 62, 60, 98, 47, 62, 60, 47, 97, 62>>
\* >\r\n <><  : a line break between tags that no split put there, then ><
ContentMixed == <<62, 13, 10, 32, 60, 62, 60>>
ContentEmpty == <<>>

Contents == {ContentTags, ContentMixed, ContentEmpty}

\* a member ZipFile.read() fails on (encrypted, truncated, bad CRC)
BrokenMember ==
    [filename |-> NameDocument, content |-> ContentTags,
     compress_type |-> ZIP_DEFLATED, readable |-> FALSE]

Members ==
    [filename : Names, content : Contents,
     compress_type : {ZIP_STORED, ZIP_DEFLATED}, readable : {TRUE}]
    \cup {BrokenMember}

NoBuf == [kind |-> "none", raw |-> <<>>, members |-> <<>>]

\* a buffer zipfile.ZipFile() raises BadZipfile on
RawBuf(b) == [kind |-> "raw", raw |-> b, members |-> <<>>]

\* a buffer that opens as the archive of these members; outfile.getvalue()
ZipBuf(ms) == [kind |-> "zip", raw |-> <<>>, members |-> ms]

Inputs ==
    {RawBuf(<<>>), RawBuf(<<97, 62, 60>>)}
    \cup {ZipBuf(ms) : ms \in SeqsUpTo(Members, MaxMembers)}

Event(level, text) == [level |-> level, text |-> text]

Count(level) == Cardinality({i \in 1..Len(events) : events[i].level = level})

----------------------------------------------------------------------------
(* The parts of the two filters *)

\* "..." + kwargs["filename"] + "...": str + str is a str, str + bytes raises
\* TypeError
str_concat(t) == IF t = "str" THEN "str" ELSE "TypeError"

\* "...%s..." % kwargs["filename"]: a str whatever the argument's type
str_format(t) == "str"

\* a faulty variant of stored: the member keeps its declared method
keep_compress_type(info) == info

\* archive_member_info.compress_type = 0
stored(info) == [info EXCEPT !.compress_type = ZIP_STORED]

\* archive_member_info.compress_type = zipfile.ZIP_DEFLATED
deflated(info) == [info EXCEPT !.compress_type = ZIP_DEFLATED]

\* a faulty variant of writestr: a member whose name is already in the archive
\* replaces the earlier one
writestr_dedup(out, info, data) ==
    LET m == [info EXCEPT !.content = data, !.readable = TRUE]
    IN  IF \E i \in 1..Len(out) : out[i].filename = info.filename
        THEN [i \in 1..Len(out) |->
                 IF out[i].filename = info.filename THEN m ELSE out[i]]
        ELSE Append(out, m)

\* ZipFile.writestr(zinfo, data): one more entry, under zinfo's name and
\* compression method, holding data
writestr(out, info, data) ==
    Append(out, [info EXCEPT !.content = data, !.readable = TRUE])

\* a faulty variant of encode_content: the substitution is applied to every
\* member
encode_content_all(info) == split(info.content)

\* what zipdocencode writes for a member it has read
encode_content(info) ==
    IF isxml(info.filename) THEN split(info.content) ELSE info.content

\* what zipdocdecode writes for a member it has read
decode_content(info) ==
    IF isxml(info.filename) THEN join(info.content) ELSE info.content

\* a faulty variant of read_raises: the failure is handled like a bad archive, the
\* input is returned
read_passthrough ==
    /\ pc' = "returned"
    /\ ret' = s
    /\ events' = Append(events, Event("note", "Skipped"))
    /\ exc' = "none"

\* ZipFile.read() raises and nothing in the filter catches it
read_raises ==
    /\ pc' = "raised"
    /\ exc' = "read"
    /\ UNCHANGED <<ret, events>>

\* a faulty variant of announce: the message goes to ui.note
announce_note(evs, text) == Append(evs, Event("note", text))

\* kwargs["ui"].debug(_("zipdoc: Encoded %s\n") % kwargs["filename"])
announce(evs, text) == Append(evs, Event("debug", text))

----------------------------------------------------------------------------
(* zipdocencode *)

\* zipfile.ZipFile(infile, "r") raises BadZipfile
zipdocencode_badzip ==
    /\ op = "encode" /\ pc = "start" /\ s.kind = "raw"
    /\ IF str_concat(filename) = "TypeError"
       THEN /\ pc' = "raised"
            /\ exc' = "TypeError"
            /\ UNCHANGED <<events, ret>>
       ELSE /\ events' = Append(events, Event("note", "Skipped encoding"))
            /\ ret' = s
            /\ pc' = "returned"
            /\ UNCHANGED exc
    /\ UNCHANGED <<op, s, filename, infos, idx, outfile, outclosed, hist, orig>>
    /\ UNCHANGED xmlvars

\* the archive opens: infolist(), and an empty output archive
zipdocencode_open ==
    /\ op = "encode" /\ pc = "start" /\ s.kind = "zip"
    /\ infos' = s.members
    /\ outfile' = <<>>
    /\ idx' = 1
    /\ pc' = "loop"
    /\ UNCHANGED <<op, s, filename, outclosed, events, ret, exc, hist, orig>>
    /\ UNCHANGED xmlvars

\* one turn of the for loop
zipdocencode_member ==
    /\ op = "encode" /\ pc = "loop" /\ idx <= Len(infos)
    /\ IF ~infos[idx].readable
       THEN /\ read_raises
            /\ UNCHANGED <<infos, idx, outfile>>
       ELSE /\ infos' = [infos EXCEPT ![idx] = stored(infos[idx])]
            /\ outfile' = writestr(outfile, stored(infos[idx]),
                                   encode_content(infos[idx]))
            /\ idx' = idx + 1
            /\ UNCHANGED <<pc, exc, ret, events>>
    /\ UNCHANGED <<op, s, filename, outclosed, hist, orig>>
    /\ UNCHANGED xmlvars

\* zipped.close(); uncompressed.close(); infile.close()
zipdocencode_close ==
    /\ op = "encode" /\ pc = "loop" /\ idx > Len(infos)
    /\ outclosed' = TRUE
    /\ pc' = "closed"
    /\ UNCHANGED <<op, s, filename, infos, idx, outfile, events, ret, exc, hist, orig>>
    /\ UNCHANGED xmlvars

\* outs = outfile.getvalue(); ui.debug(...); return outs
zipdocencode_return ==
    /\ op = "encode" /\ pc = "closed"
    /\ events' = announce(events, "Encoded")
    /\ ret' = ZipBuf(outfile)
    /\ pc' = "returned"
    /\ UNCHANGED <<op, s, filename, infos, idx, outfile, outclosed, exc, hist, orig>>
    /\ UNCHANGED xmlvars

----------------------------------------------------------------------------
(* zipdocdecode *)

\* zipfile.ZipFile(infile, "r") raises BadZipfile
zipdocdecode_badzip ==
    /\ op = "decode" /\ pc = "start" /\ s.kind = "raw"
    /\ IF str_format(filename) = "TypeError"
       THEN /\ pc' = "raised"
            /\ exc' = "TypeError"
            /\ UNCHANGED <<events, ret>>
       ELSE /\ events' = Append(events, Event("note", "Skipped decoding"))
            /\ ret' = s
            /\ pc' = "returned"
            /\ UNCHANGED exc
    /\ UNCHANGED <<op, s, filename, infos, idx, outfile, outclosed, hist, orig>>
    /\ UNCHANGED xmlvars

\* the archive opens: infolist(), and an empty output archive
zipdocdecode_open ==
    /\ op = "decode" /\ pc = "start" /\ s.kind = "zip"
    /\ infos' = s.members
    /\ outfile' = <<>>
    /\ idx' = 1
    /\ pc' = "loop"
    /\ UNCHANGED <<op, s, filename, outclosed, events, ret, exc, hist, orig>>
    /\ UNCHANGED xmlvars

\* one turn of the for loop
zipdocdecode_member ==
    /\ op = "decode" /\ pc = "loop" /\ idx <= Len(infos)
    /\ IF ~infos[idx].readable
       THEN /\ read_raises
            /\ UNCHANGED <<infos, idx, outfile>>
       ELSE /\ infos' = [infos EXCEPT ![idx] = deflated(infos[idx])]
            /\ outfile' = writestr(outfile, deflated(infos[idx]),
                                   decode_content(infos[idx]))
            /\ idx' = idx + 1
            /\ UNCHANGED <<pc, exc, ret, events>>
    /\ UNCHANGED <<op, s, filename, outclosed, hist, orig>>
    /\ UNCHANGED xmlvars

\* zipped.close(); uncompressed.close(); infile.close()
zipdocdecode_close ==
    /\ op = "decode" /\ pc = "loop" /\ idx > Len(infos)
    /\ outclosed' = TRUE
    /\ pc' = "closed"
    /\ UNCHANGED <<op, s, filename, infos, idx, outfile, events, ret, exc, hist, orig>>
    /\ UNCHANGED xmlvars

\* outs = outfile.getvalue(); ui.debug(...); return outs
zipdocdecode_return ==
    /\ op = "decode" /\ pc = "closed"
    /\ events' = announce(events, "Decoded")
    /\ ret' = ZipBuf(outfile)
    /\ pc' = "returned"
    /\ UNCHANGED <<op, s, filename, infos, idx, outfile, outclosed, exc, hist, orig>>
    /\ UNCHANGED xmlvars

----------------------------------------------------------------------------
(* The host: the two registered filters are run on a document in turn, each *)
(* on what the one before returned (commit, update, commit, ...)           *)

Refilter ==
    /\ pc = "returned" /\ Len(hist) < MaxCalls
    /\ \E next \in Ops :
          /\ op' = next
          /\ hist' = Append(hist, next)
    /\ s' = ret
    /\ pc' = "start"
    /\ infos' = <<>> /\ idx' = 1 /\ outfile' = <<>> /\ outclosed' = FALSE
    /\ events' = <<>>
    /\ ret' = NoBuf
    /\ exc' = "none"
    /\ UNCHANGED <<filename, orig>>
    /\ UNCHANGED xmlvars

----------------------------------------------------------------------------
(* Specifications *)

CallIdle ==
    /\ op = "encode" /\ s = NoBuf /\ filename = "str" /\ pc = "idle"
    /\ infos = <<>> /\ idx = 1 /\ outfile = <<>> /\ outclosed = FALSE
    /\ events = <<>> /\ ret = NoBuf /\ exc = "none"
    /\ hist = <<>> /\ orig = NoBuf

Init ==
    /\ op \in Ops
    /\ s \in Inputs
    /\ filename \in FilenameTypes
    /\ pc = "start"
    /\ infos = <<>> /\ idx = 1 /\ outfile = <<>> /\ outclosed = FALSE
    /\ events = <<>> /\ ret = NoBuf /\ exc = "none"
    /\ hist = <<op>>
    /\ orig = s
    /\ XmlIdle

Next ==
    \/ zipdocencode_badzip
    \/ zipdocencode_open
    \/ zipdocencode_member
    \/ zipdocencode_close
    \/ zipdocencode_return
    \/ zipdocdecode_badzip
    \/ zipdocdecode_open
    \/ zipdocdecode_member
    \/ zipdocdecode_close
    \/ zipdocdecode_return
    \/ Refilter

Spec == Init /\ [][Next]_vars

XmlSpecInit == XmlInit /\ CallIdle

XmlNext ==
    \/ XmlSplit /\ UNCHANGED callvars
    \/ XmlJoin /\ UNCHANGED callvars
    \/ XmlResplit /\ UNCHANGED callvars

SpecXml == XmlSpecInit /\ [][XmlNext]_vars

----------------------------------------------------------------------------
(* What the properties are stated with.  None of this is used by the model *)
(* above: a name counts as XML by its last four characters, and "y is x    *)
(* with every old replaced by new" is stated position by position.         *)

Occurs(b, pat, i) ==
    /\ i >= 1
    /\ i + Len(pat) - 1 <= Len(b)
    /\ SubSeq(b, i, i + Len(pat) - 1) = pat

Contains(b, pat) == \E i \in 1..Len(b) : Occurs(b, pat, i)

\* y is x with every occurrence of old replaced by new (for an old that
\* cannot overlap itself, as >< and >CRLF SPACE< cannot)
IsSubstitution(x, y, old, new) ==
    LET occ == {i \in 1..Len(x) : Occurs(x, old, i)}
        grow == Len(new) - Len(old)
        shift(k) == Cardinality({i \in occ : i < k}) * grow
        covered(k) == \E i \in occ : i <= k /\ k < i + Len(old)
    IN  /\ Len(y) = Len(x) + Cardinality(occ) * grow
        /\ \A i \in occ : Occurs(y, new, i + shift(i))
        /\ \A k \in 1..Len(x) : ~covered(k) => y[k + shift(k)] = x[k]

NameIsXml(n) ==
    /\ Len(n) >= 4
    /\ n[Len(n) - 3] = "."
    /\ n[Len(n) - 2] \in {"x", "X"}
    /\ n[Len(n) - 1] \in {"m", "M"}
    /\ n[Len(n)] \in {"l", "L"}

\* <a> CR LF SPACE <b/> CR LF SPACE </a>
ContentTagsSplit ==
    <<60, 97, 62, 13, 10, 32, 60, 98, 47, 62, 13, 10, 32, 60, 47, 97, 62>>

Finished == pc \in {"returned", "raised"}

----------------------------------------------------------------------------
(* Properties *)

\* C1: for an input that does not open as an archive, the filter returns
\* exactly its input, and the sink has received one note and no debug event.
\* (Stated as claimed; zipdocencode does not satisfy it when the filename is
\* bytes.)
C1_PassThroughOnBadZip ==
    (Finished /\ s.kind = "raw") =>
        /\ pc = "returned"
        /\ ret = s
        /\ Count("note") = 1
        /\ Count("debug") = 0

\* C2: for an archive with no .xml member, decoding the encoded archive gives
\* the same member names in the same order with byte-identical contents.
C2_RoundTripWithoutXml ==
    ( /\ pc = "returned"
      /\ hist = <<"encode", "decode">>
      /\ orig.kind = "zip"
      /\ \A i \in 1..Len(orig.members) : ~NameIsXml(orig.members[i].filename) )
    =>
        /\ ret.kind = "zip"
        /\ Len(ret.members) = Len(orig.members)
        /\ \A i \in 1..Len(orig.members) :
              /\ ret.members[i].filename = orig.members[i].filename
              /\ ret.members[i].content = orig.members[i].content

\* C2 witness: a two-member archive without XML, one member holding both ><
\* and an incidental line break between tags, has gone through encode and
\* decode and a compression method has changed.
C2_Witness ==
    /\ pc = "returned"
    /\ hist = <<"encode", "decode">>
    /\ orig.kind = "zip"
    /\ Len(orig.members) = 2
    /\ \A i \in 1..2 : ~NameIsXml(orig.members[i].filename)
    /\ \E i \in 1..2 :
          /\ orig.members[i].content = ContentMixed
          /\ ret.members[i].content = ContentMixed
          /\ orig.members[i].compress_type # ret.members[i].compress_type

\* C3 as claimed: join(split(x)) = x for every byte string x.
C3_JoinSplitAll == xpc >= 2 => xjoin = xin

\* C3 as amended: join(split(x)) = x for every byte string x that does not
\* contain > CR LF SPACE <.
C3_JoinSplit ==
    (xpc >= 2 /\ ~Contains(xin, SplitBoundary)) => xjoin = xin

\* C3 witness: an x with >< and without > CR LF SPACE < has been split (which
\* changed it) and joined back.
C3_Witness ==
    /\ xpc >= 2
    /\ ~Contains(xin, SplitBoundary)
    /\ Contains(xin, TagBoundary)
    /\ xsplit # xin
    /\ xjoin = xin

\* C4: split(join(y)) = y for every y that is split(x) for some x, also when
\* x contains > CR LF SPACE <.
C4_SplitJoinOnSplitOutput == xpc = 3 => xresplit = xsplit

\* C4 witness: y = split(x) for an x that contains > CR LF SPACE <, joined
\* (which changed it) and split again.
C4_Witness ==
    /\ xpc = 3
    /\ Contains(xin, SplitBoundary)
    /\ xjoin # xsplit
    /\ xresplit = xsplit

\* C5: for a member whose lower-cased name ends with .xml, zipdocencode
\* writes the content with every >< replaced by > CR LF SPACE < (so no ><
\* is left) and zipdocdecode writes it with every > CR LF SPACE < replaced by
\* ><; word/document.xml holding <a><b/></a> is encoded to
\* <a> CR LF SPACE <b/> CR LF SPACE </a>, and that is decoded to <a><b/></a>.
C5_XmlMemberSubstitution ==
    \A j \in 1..Len(outfile) :
        NameIsXml(s.members[j].filename) =>
            /\ op = "encode" =>
                  /\ IsSubstitution(s.members[j].content, outfile[j].content,
                                    TagBoundary, SplitBoundary)
                  /\ ~Contains(outfile[j].content, TagBoundary)
                  /\ s.members[j].content = ContentTags
                        => outfile[j].content = ContentTagsSplit
            /\ op = "decode" =>
                  /\ IsSubstitution(s.members[j].content, outfile[j].content,
                                    SplitBoundary, TagBoundary)
                  /\ s.members[j].content = ContentTagsSplit
                        => outfile[j].content = ContentTags

\* C5 witness: word/document.xml holding <a><b/></a> has been encoded to the
\* split form and that archive decoded to <a><b/></a> again.
C5_Witness ==
    /\ pc = "returned"
    /\ hist = <<"encode", "decode">>
    /\ \E j \in 1..Len(orig.members) :
          /\ orig.members[j].filename = NameDocument
          /\ orig.members[j].content = ContentTags
          /\ s.members[j].content = ContentTagsSplit
          /\ ret.members[j].content = ContentTags

\* C6: the output archive has as many members as the input, the i-th with the
\* name of the i-th input member and content derived from its content; none
\* is reordered, dropped, added or merged with one of the same name.
C6_MemberOrderPreserved ==
    /\ \A j \in 1..Len(outfile) : outfile[j].filename = s.members[j].filename
    /\ (pc = "returned" /\ s.kind = "zip") =>
          /\ ret.kind = "zip"
          /\ Len(ret.members) = Len(s.members)
          /\ \A i \in 1..Len(s.members) :
                /\ ret.members[i].filename = s.members[i].filename
                /\ IF ~NameIsXml(s.members[i].filename)
                   THEN ret.members[i].content = s.members[i].content
                   ELSE IF op = "encode"
                   THEN IsSubstitution(s.members[i].content,
                            ret.members[i].content, TagBoundary, SplitBoundary)
                   ELSE IsSubstitution(s.members[i].content,
                            ret.members[i].content, SplitBoundary, TagBoundary)

\* C6 witness: an archive with two members of the same name and different
\* contents has been re-packed, and both are there with their own content.
C6_Witness ==
    /\ pc = "returned"
    /\ s.kind = "zip"
    /\ Len(s.members) = 2
    /\ s.members[1].filename = s.members[2].filename
    /\ s.members[1].content # s.members[2].content
    /\ Len(ret.members) = 2
    /\ ret.members[1].content # ret.members[2].content

\* C7: whatever methods the input members declare, every member zipdocencode
\* returns is STORE and every member zipdocdecode returns is DEFLATE.
C7_CompressionPolicy ==
    (pc = "returned" /\ s.kind = "zip") =>
        /\ ret.kind = "zip"
        /\ \A i \in 1..Len(ret.members) :
              ret.members[i].compress_type =
                  IF op = "encode" THEN ZIP_STORED ELSE ZIP_DEFLATED

\* C7 witness: zipdocencode has returned an archive one of whose members was
\* declared DEFLATE in the input and is STORE in the output.
C7_Witness ==
    /\ pc = "returned"
    /\ op = "encode"
    /\ s.kind = "zip"
    /\ \E i \in 1..Len(s.members) :
          /\ s.members[i].compress_type = ZIP_DEFLATED
          /\ ret.members[i].compress_type = ZIP_STORED

\* C8: a member whose lower-cased name does not end with .xml is written with
\* byte-identical content by both filters, whatever the content holds.
C8_NonXmlUntouched ==
    \A j \in 1..Len(outfile) :
        ~NameIsXml(s.members[j].filename) =>
            outfile[j].content = s.members[j].content

\* C8 witness: image.png holding >< and > CR LF SPACE < has been re-packed
\* with the same content and another compression method.
C8_Witness ==
    /\ pc = "returned"
    /\ s.kind = "zip"
    /\ \E j \in 1..Len(s.members) :
          /\ s.members[j].filename = NameImage
          /\ s.members[j].content = ContentMixed
          /\ ret.members[j].content = ContentMixed
          /\ ret.members[j].compress_type # s.members[j].compress_type

\* C9: when the input opens but reading a member fails, at whatever position,
\* the call ends with the error: nothing is returned (neither a partial
\* archive nor the input) and no debug event is emitted; a call on such an
\* archive never returns.
C9_ReadFailureIsFatal ==
    /\ exc = "read" =>
          /\ pc = "raised"
          /\ ret = NoBuf
          /\ Count("debug") = 0
    /\ (s.kind = "zip" /\ \E k \in 1..Len(s.members) : ~s.members[k].readable)
          => pc \notin {"closed", "returned"}
    /\ (Finished /\ s.kind = "zip"
           /\ \E k \in 1..Len(s.members) : ~s.members[k].readable)
          => exc = "read"

\* C9 witness: the read of the second member failed after the first had been
\* written to the output archive.
C9_Witness ==
    /\ exc = "read"
    /\ pc = "raised"
    /\ idx = 2
    /\ Len(outfile) = 1
    /\ ~s.members[2].readable

====
